---- MODULE Spec2Model ----
(***************************************************************************)
(* rdmpass: the password deriver of server.js (expandEntropy,              *)
(* buildCharacterSets, generatePassword), the POST /generate handler,      *)
(* resolveClientPath, and the App component of the client (collection of   *)
(* mouse samples, seed, derivation request).                               *)
(*                                                                         *)
(* Characters are UTF-16 code units (integers), strings are sequences of   *)
(* them.  HMAC-SHA256 is a library primitive: it is modelled as a keyed    *)
(* table, the key (the entropy) fixing the leading bytes of the stream and *)
(* a fixed filler giving the rest.                                         *)
(***************************************************************************)
EXTENDS Integers, Sequences, FiniteSets

VARIABLES
  pc,        \* where the active generatePassword call is
  caller,    \* the request whose handler made the call (0: a direct call)
  entropy,   \* its first argument
  settings,  \* its second argument
  expanded,  \* let expanded
  chars,     \* const chars
  present,   \* const present (the keys set to true)
  p,         \* let p
  result,    \* let result
  error,     \* message of the error the call threw
  requests,  \* the POST /generate requests: body received so far, responses written
  tally,     \* the byte-to-index mapping applied to the byte values in turn
  blockLoop, \* an expandEntropy call: byteCount, i, and the counter inputs hashed so far
  staticFile, \* a resolveClientPath call: urlPath, normalized, and what it returned
  \* the React state and refs of the client's App component
  requiredMoves,       \* useState(250)
  collecting,          \* useState(false)
  clientEntropy,       \* useState(null): entropy
  movementRef,         \* useRef([])
  hasComputedEntropy,  \* useRef(false)
  clientPassword,      \* useState(''): password
  loading,             \* useState(false)
  clientError,         \* useState(null): error
  form,                \* the settings states (passwordLength, include..., customCharacters, ...)
  digests,             \* computeEntropy calls waiting for crypto.subtle.digest
  fetches,             \* generatePassword calls waiting for fetch('/generate')
  session,             \* number of startCollection and resetAll calls so far
  sent,                \* the bodies of the derivation requests sent so far
  listening            \* handleMove is registered on window for 'mousemove'

\* the variables of the client
clientVars ==
  <<requiredMoves, collecting, clientEntropy, movementRef, hasComputedEntropy, clientPassword,
    loading, clientError, form, digests, fetches, session, sent, listening>>

vars ==
  <<pc, caller, entropy, settings, expanded, chars, present, p, result, error,
    requests, tally, blockLoop, staticFile,
                 clientVars>>

\* the variables of a generatePassword call
callVars == <<pc, caller, entropy, settings, expanded, chars, present, p, result, error>>

(* ------------------------------ bounds -------------------------------- *)

\* number of stream bytes a modelled entropy value fixes
HeadLen == 2

\* largest positive length a derivation is asked for
MaxLenInput == 3

\* largest number of category flags set in one derivation's settings
MaxFlags == 2

\* how many times one call may grow its buffer before the model stops following it
MaxReexpansions == 2

\* number of POST /generate requests
NumRequests == 2

\* characters in an ordinary request body
SmallBody == 256

\* characters in a chunk of a body that arrives in pieces
ChunkLen == 4096

(* -------------------------- program constants ------------------------- *)

\* sha256 digest size in bytes
DigestLen == 32

\* number of values of a byte
ByteRange == 256

\* settings.length || 16
DefaultLength == 16

\* Math.min(..., 2048)
MaxLength == 2048

\* entropy.length !== 32
EntropyBytes == 32

\* body.length > 10 * 1024
BodyLimit == 10240

(* ------------------------------ helpers ------------------------------- *)

Range(s) == {s[i] : i \in DOMAIN s}

Min(a, b) == IF a <= b THEN a ELSE b

Max(a, b) == IF a >= b THEN a ELSE b

\* String.prototype.includes for a one-character needle
Includes(str, ch) == \E i \in DOMAIN str : str[i] = ch

(* --------------------------- HMAC-SHA256 ------------------------------ *)

\* the values the leading stream bytes of a modelled key are drawn from
HeadBytes == {0, 30, 255}

\* stream bytes not fixed by the key: a fixed permutation of the byte values
FillByte(k) == (37 * k + 11) % ByteRange

\* crypto.createHmac('sha256', key).update(Buffer.from([counter])).digest()
HmacSha256(key, counter) ==
  [j \in 1..DigestLen |->
     LET k == DigestLen * counter + (j - 1)
     IN IF k < Len(key) THEN key[k + 1] ELSE FillByte(k)]

\* Buffer.from([i]) keeps the low 8 bits of i
CounterByte(i) == i % ByteRange

\* variant: the block counter is kept across calls (it starts at the number of
\* requests answered so far)
expandEntropy_shared(key, byteCount) ==
  LET first == Cardinality({r \in DOMAIN requests : requests[r].responses # <<>>})
  IN [k \in 1..byteCount |->
        HmacSha256(key, CounterByte(first + (k - 1) \div DigestLen))[((k - 1) % DigestLen) + 1]]

\* expandEntropy(entropy, byteCount): blocks 0..ceil(byteCount/32)-1, truncated
expandEntropy(key, byteCount) ==
  [k \in 1..byteCount |->
     HmacSha256(key, CounterByte((k - 1) \div DigestLen))[((k - 1) % DigestLen) + 1]]

(* ------------------------- buildCharacterSets -------------------------- *)

lowercase == [i \in 1..26 |-> 96 + i]

uppercase == [i \in 1..26 |-> 64 + i]

numbers == [i \in 1..10 |-> 47 + i]

\* !"#$%&'()*+,-./  :;<=>?@  [\]^_`  {|}~
symbols ==
  [i \in 1..15 |-> 32 + i] \o [i \in 1..7 |-> 57 + i]
    \o [i \in 1..6 |-> 90 + i] \o [i \in 1..4 |-> 122 + i]

\* String.fromCharCode(0xA0 .. 0xFF)
extendedLatin == [i \in 1..96 |-> 159 + i]

\* the keys of `selected`
SelectedKeys(s) ==
  (IF s.includeLowercase THEN {"lowercase"} ELSE {})
    \cup (IF s.includeUppercase THEN {"uppercase"} ELSE {})
    \cup (IF s.includeNumbers THEN {"numbers"} ELSE {})
    \cup (IF s.includeSymbols THEN {"symbols"} ELSE {})
    \cup (IF s.includeExtendedLatin THEN {"extendedLatin"} ELSE {})
    \cup (IF s.customCharacters # <<>> THEN {"custom"} ELSE {})

\* selected[key]
CategoryChars(s, key) ==
  CASE key = "lowercase" -> lowercase
    [] key = "uppercase" -> uppercase
    [] key = "numbers" -> numbers
    [] key = "symbols" -> symbols
    [] key = "extendedLatin" -> extendedLatin
    [] OTHER -> s.customCharacters

\* fullSet: the selected categories concatenated in the order of the code
FullSet(s) ==
  (IF s.includeLowercase THEN lowercase ELSE <<>>)
    \o (IF s.includeUppercase THEN uppercase ELSE <<>>)
    \o (IF s.includeNumbers THEN numbers ELSE <<>>)
    \o (IF s.includeSymbols THEN symbols ELSE <<>>)
    \o (IF s.includeExtendedLatin THEN extendedLatin ELSE <<>>)
    \o s.customCharacters

\* variant: the empty-alphabet check is missing
NoCategoriesSelected_never(s) == FALSE

\* if (!fullSet) throw new Error('No character categories selected')
NoCategoriesSelected(s) == FullSet(s) = <<>>

\* { fullSet, categories: selected }
buildCharacterSets(s) ==
  [fullSet |-> FullSet(s),
   categories |-> [key \in SelectedKeys(s) |-> CategoryChars(s, key)]]

(* --------------------------- generatePassword -------------------------- *)

\* settings.length || 16
LengthOrDefault(n) == IF n = 0 THEN DefaultLength ELSE n

\* Math.max(1, Math.min(settings.length || 16, 2048))
PasswordLength(s) == Max(1, Min(LengthOrDefault(s.length), MaxLength))

\* variant: no byte is skipped
RejectFrom_none(setLength) == ByteRange

\* const max = 256 - (256 % setLength)
RejectFrom(setLength) == ByteRange - (ByteRange % setLength)

\* const index = byte % setLength
CharIndex(byte, setLength) == byte % setLength

\* variant: the loop test is <= instead of <
NeedsMoreChars_inclusive(cs, passwordLength) == Len(cs) <= passwordLength

\* while (chars.length < passwordLength)
NeedsMoreChars(cs, passwordLength) == Len(cs) < passwordLength

\* variant: one present category is enough
AllPresent_any(categories, pres) == \E key \in DOMAIN categories : key \in pres

\* the for..in loop that sets ok: every selected category is present
AllPresent(categories, pres) == \A key \in DOMAIN categories : key \in pres

\* variant: a character is recorded for the custom category alone when it is a custom character
CategoriesOf_customFirst(categories, ch) ==
  IF "custom" \in DOMAIN categories /\ Includes(categories["custom"], ch)
  THEN {"custom"}
  ELSE {key \in DOMAIN categories : Includes(categories[key], ch)}

\* the categories a selected character is recorded for
CategoriesOf(categories, ch) == {key \in DOMAIN categories : Includes(categories[key], ch)}

\* variant: the read position does not move
NextRead_stay(pos) == pos

\* expanded[p++]: the read position after a read
NextRead(pos) == pos + 1

\* expandEntropy(entropy, 32): the bytes appended when the buffer runs out
ExtraBytes(key) == expandEntropy(key, DigestLen)

NoBlockLoop == [byteCount |-> 0, i |-> 0, counters |-> <<>>]

\* no resolveClientPath call
NoStaticFile == [state |-> "none", urlPath |-> <<>>, normalized |-> <<>>, returned |-> <<>>]

NoSettings ==
  [includeLowercase |-> FALSE, includeUppercase |-> FALSE, includeNumbers |-> FALSE,
   includeSymbols |-> FALSE, includeExtendedLatin |-> FALSE, customCharacters |-> <<>>,
   requireEachSelected |-> FALSE, length |-> 0]

\* lines 170-193: the character sets, the length, the first expansion
Enter ==
  /\ pc = "called"
  /\ IF NoCategoriesSelected(settings)
     THEN /\ pc' = "thrown"
          /\ error' = "No character categories selected"
          /\ UNCHANGED <<expanded, chars, present, p>>
     ELSE /\ pc' = "sampling"
          /\ expanded' = expandEntropy(entropy, PasswordLength(settings) * 2)
          /\ chars' = <<>>
          /\ present' = {}
          /\ p' = 0
          /\ error' = error
  /\ UNCHANGED <<caller, entropy, settings, result, requests, tally, blockLoop, staticFile,
                 clientVars>>

\* the buffer has run out and the model does not follow another growth
BufferAtBound ==
  /\ pc = "sampling"
  /\ p >= Len(expanded)
  /\ Len(expanded) >= PasswordLength(settings) * 2 + MaxReexpansions * DigestLen

\* lines 194-213: one pass of the inner while loop
SampleByte ==
  /\ pc = "sampling"
  /\ NeedsMoreChars(chars, PasswordLength(settings))
  /\ ~BufferAtBound
  /\ LET sets == buildCharacterSets(settings)
         setLength == Len(sets.fullSet)
         grown == IF p >= Len(expanded)
                  THEN expanded \o ExtraBytes(entropy)
                  ELSE expanded
         byte == grown[p + 1]
     IN /\ expanded' = grown
        /\ p' = NextRead(p)
        /\ IF byte >= RejectFrom(setLength)
           THEN UNCHANGED <<chars, present>>
           ELSE LET ch == sets.fullSet[CharIndex(byte, setLength) + 1]
                IN /\ chars' = Append(chars, ch)
                   /\ present' = present \cup CategoriesOf(sets.categories, ch)
  /\ UNCHANGED <<pc, caller, entropy, settings, result, error, requests, tally, blockLoop, staticFile,
                 clientVars>>

\* lines 214-227: the candidate is complete: return it or start the next pass
FinishCandidate ==
  /\ pc = "sampling"
  /\ ~NeedsMoreChars(chars, PasswordLength(settings))
  /\ result' = chars
  /\ IF \/ ~settings.requireEachSelected
        \/ AllPresent(buildCharacterSets(settings).categories, present)
     THEN /\ pc' = "returned"
          /\ UNCHANGED <<chars, present, p>>
     ELSE /\ pc' = "sampling"
          /\ chars' = <<>>
          /\ present' = {}
          /\ p' = 0
  /\ UNCHANGED <<caller, entropy, settings, expanded, error, requests, tally, blockLoop, staticFile,
                 clientVars>>

(* ------------------------------- inputs -------------------------------- *)

Categories == {"lowercase", "uppercase", "numbers", "symbols", "extendedLatin"}

\* customCharacters: none, "a" (also a lowercase letter), the euro sign, "a" and the euro sign
CustomInputs == {<<>>, <<97>>, <<8364>>, <<97, 8364>>}

LengthInputs == {-1, 0} \cup (1..MaxLenInput)

EntropyInputs == [1..HeadLen -> HeadBytes]

SettingsOf(flags, custom, requireEach, length) ==
  [includeLowercase |-> "lowercase" \in flags, includeUppercase |-> "uppercase" \in flags,
   includeNumbers |-> "numbers" \in flags, includeSymbols |-> "symbols" \in flags,
   includeExtendedLatin |-> "extendedLatin" \in flags, customCharacters |-> custom,
   requireEachSelected |-> requireEach, length |-> length]

(* --------------------------- client: App state ------------------------- *)

\* useState(250): requiredMoves
DefaultMoves == 250

\* useState(16): passwordLength
DefaultPasswordLength == 16

\* null
Null == [null |-> TRUE]

\* the settings states after construction and after resetAll
DefaultForm ==
  SettingsOf({"lowercase", "uppercase", "numbers", "symbols"}, <<>>, FALSE,
             DefaultPasswordLength)

\* lines 20-41: the state after construction
ClientInit ==
  /\ requiredMoves = DefaultMoves
  /\ collecting = FALSE
  /\ clientEntropy = Null
  /\ movementRef = <<>>
  /\ hasComputedEntropy = FALSE
  /\ clientPassword = <<>>
  /\ loading = FALSE
  /\ clientError = ""
  /\ form = DefaultForm
  /\ digests = {}
  /\ fetches = {}
  /\ session = 0
  /\ sent = <<>>
  /\ listening = FALSE

\* a request body without an entropy field, without a settings field
NoEntropy == [given |-> FALSE, bytes |-> 0, key |-> <<>>]

NoSettingsField == [given |-> FALSE, value |-> NoSettings]

\* the entropy values and settings the modelled clients send
HttpKeys == {<<0, 30>>, <<0, 0>>}

HttpSettings ==
  {SettingsOf({}, <<>>, FALSE, 2),
   SettingsOf({"lowercase"}, <<>>, FALSE, 2),
   SettingsOf({"lowercase", "numbers"}, <<>>, TRUE, 2)}

EntropyFields ==
  {NoEntropy, [given |-> TRUE, bytes |-> EntropyBytes - 1, key |-> <<0, 30>>]}
    \cup {[given |-> TRUE, bytes |-> EntropyBytes, key |-> k] : k \in HttpKeys}

SettingsFields == {NoSettingsField} \cup {[given |-> TRUE, value |-> s] : s \in HttpSettings}

\* request bodies: text that is no JSON, JSON of a falsy value, JSON objects;
\* and two bodies at and above the size limit
Payloads ==
  {[json |-> j, entropy |-> NoEntropy, settings |-> NoSettingsField, size |-> SmallBody] :
     j \in {"malformed", "falsy"}}
    \cup {[json |-> "object", entropy |-> e, settings |-> st, size |-> SmallBody] :
            e \in EntropyFields, st \in SettingsFields}
    \cup {[json |-> "object",
           entropy |-> [given |-> TRUE, bytes |-> EntropyBytes, key |-> <<0, 30>>],
           settings |-> [given |-> TRUE, value |-> SettingsOf({"lowercase"}, <<>>, FALSE, 2)],
           size |-> n] : n \in {BodyLimit, BodyLimit + 1}}

(* ------------------------ POST /generate handler ----------------------- *)

Requests == 1..NumRequests

NoPayload ==
  [json |-> "none", entropy |-> NoEntropy, settings |-> NoSettingsField, size |-> 0]

NoRequest ==
  [state |-> "none", payload |-> NoPayload, received |-> 0, body |-> 0, responses |-> <<>>]

RECURSIVE ReceivedBy(_)
\* the characters delivered so far to the requests 1..n still being received
ReceivedBy(n) ==
  IF n = 0 THEN 0
  ELSE ReceivedBy(n - 1)
         + (IF requests[n].state = "receiving" THEN requests[n].received ELSE 0)

\* variant: body is one variable of the module, shared by the requests being received
BodyAppend_shared(r, chunk) == ReceivedBy(NumRequests) + chunk

\* body += chunk.toString('utf8'): the length of the request's body after a chunk
BodyAppend(r, chunk) == requests[r].body + chunk

\* JSON.parse(body): the text of the request parses as sent when body holds
\* all of it and nothing else
ParsedBody(req) ==
  IF req.body = req.payload.size THEN req.payload
  ELSE [NoPayload EXCEPT !.json = "malformed"]

NoTally == [setLength |-> 0, picked |-> <<>>]

\* variant: the length of the decoded entropy is not checked
RequestError_anyLength(payload) ==
  IF payload.json = "malformed" THEN "Unexpected token in JSON"
  ELSE IF payload.json = "falsy" \/ ~payload.entropy.given \/ ~payload.settings.given
       THEN "Missing required fields"
       ELSE ""

\* lines 243-251: what the try block throws before generatePassword is called
\* ("" when it throws nothing)
RequestError(payload) ==
  IF payload.json = "malformed" THEN "Unexpected token in JSON"
  ELSE IF payload.json = "falsy" \/ ~payload.entropy.given \/ ~payload.settings.given
       THEN "Missing required fields"
       ELSE IF payload.entropy.bytes # EntropyBytes
            THEN "Entropy must be exactly 256 bits (32 bytes)"
            ELSE ""

\* res.writeHead(200, ...); res.end(JSON.stringify({ password }))
PasswordResponse(password) == [status |-> 200, body |-> [password |-> password]]

\* res.writeHead(400, ...); res.end(JSON.stringify({ error: err.message }))
ErrorResponse(message) == [status |-> 400, body |-> [error |-> message]]

\* the locals of a call are gone once it has returned or thrown
CallReset ==
  /\ pc' = "idle"
  /\ caller' = 0
  /\ entropy' = <<>>
  /\ settings' = NoSettings
  /\ expanded' = <<>>
  /\ chars' = <<>>
  /\ present' = {}
  /\ p' = 0
  /\ result' = <<>>
  /\ error' = ""

\* lines 231-233: a POST /generate request arrives; let body = ''
Request(r) ==
  /\ pc = "idle"
  /\ requests[r].state = "none"
  /\ \E payload \in Payloads :
       requests' = [requests EXCEPT ![r] =
                      [state |-> "receiving", payload |-> payload, received |-> 0,
                       body |-> 0, responses |-> <<>>]]
  /\ UNCHANGED <<callVars, tally, blockLoop, staticFile,
                 clientVars>>

\* lines 234-240: a chunk of the body arrives
Data(r) ==
  /\ pc = "idle"
  /\ requests[r].state = "receiving"
  /\ requests[r].received < requests[r].payload.size
  /\ \E chunk \in {Min(ChunkLen, requests[r].payload.size - requests[r].received),
                   requests[r].payload.size - requests[r].received} :
       LET body == BodyAppend(r, chunk)
       IN requests' = [requests EXCEPT
                         ![r].received = @ + chunk,
                         ![r].body = body,
                         ![r].state = IF body > BodyLimit THEN "destroyed" ELSE @]
  /\ UNCHANGED <<callVars, tally, blockLoop, staticFile,
                 clientVars>>

\* lines 241-252 and 256-259: the body is complete: parse and validate it,
\* then answer the error or call generatePassword
End(r) ==
  /\ pc = "idle"
  /\ requests[r].state = "receiving"
  /\ requests[r].received = requests[r].payload.size
  /\ LET payload == ParsedBody(requests[r])
         message == RequestError(payload)
     IN IF message # ""
        THEN /\ requests' = [requests EXCEPT
                               ![r].state = "done",
                               ![r].responses = Append(@, ErrorResponse(message))]
             /\ UNCHANGED callVars
        ELSE /\ requests' = [requests EXCEPT ![r].state = "handling"]
             /\ pc' = "called"
             /\ caller' = r
             /\ entropy' = payload.entropy.key
             /\ settings' = payload.settings.value
             /\ UNCHANGED <<expanded, chars, present, p, result, error>>
  /\ UNCHANGED <<tally, blockLoop, staticFile,
                 clientVars>>

\* lines 252-259: generatePassword has returned or thrown: write the response
Respond ==
  /\ caller # 0
  /\ pc \in {"returned", "thrown"}
  /\ requests' = [requests EXCEPT
                    ![caller].state = "done",
                    ![caller].responses =
                       Append(@, IF pc = "returned" THEN PasswordResponse(result)
                                 ELSE ErrorResponse(error))]
  /\ CallReset
  /\ UNCHANGED <<tally, blockLoop, staticFile,
                 clientVars>>

Init ==
  /\ pc = "idle"
  /\ caller = 0
  /\ entropy = <<>>
  /\ settings = NoSettings
  /\ expanded = <<>>
  /\ chars = <<>>
  /\ present = {}
  /\ p = 0
  /\ result = <<>>
  /\ error = ""
  /\ requests = [r \in Requests |-> NoRequest]
  /\ tally = NoTally
  /\ blockLoop = NoBlockLoop
  /\ staticFile = NoStaticFile
  /\ ClientInit

Next ==
  \/ \E r \in Requests : Request(r)
  \/ \E r \in Requests : Data(r)
  \/ \E r \in Requests : End(r)
  \/ Enter
  \/ SampleByte
  \/ FinishCandidate
  \/ Respond

Spec == Init /\ [][Next]_vars

(* --------------------- a direct call of generatePassword --------------- *)

SettingsInputs ==
  {SettingsOf(flags, custom, req, n) :
     flags \in {f \in SUBSET Categories : Cardinality(f) <= MaxFlags},
     custom \in CustomInputs, req \in BOOLEAN, n \in LengthInputs}

InitDerive ==
  /\ pc = "called"
  /\ caller = 0
  /\ entropy \in EntropyInputs
  /\ settings \in SettingsInputs
  /\ expanded = <<>>
  /\ chars = <<>>
  /\ present = {}
  /\ p = 0
  /\ result = <<>>
  /\ error = ""
  /\ requests = [r \in Requests |-> NoRequest]
  /\ tally = NoTally
  /\ blockLoop = NoBlockLoop
  /\ staticFile = NoStaticFile
  /\ ClientInit

NextDerive == Enter \/ SampleByte \/ FinishCandidate

SpecDerive == InitDerive /\ [][NextDerive]_vars

\* the call is synchronous code: it keeps running until it returns or throws
FairDerive == SpecDerive /\ WF_vars(NextDerive)

(* ------------- generatePassword with alphabets around 256 ------------- *)

\* customCharacters of n characters, none of them in a standard category
WideCustom(n) == [i \in 1..n |-> ByteRange + i]

\* no coverage check; no standard category or all of them; custom strings
\* that bring the alphabet to 256 characters, to one more, or far less
WideSettingsInputs ==
  {SettingsOf(flags, WideCustom(n), FALSE, len) :
     flags \in {{}, Categories}, n \in {1, ByteRange, ByteRange + 1},
     len \in 1..MaxLenInput}

InitWide ==
  /\ pc = "called"
  /\ caller = 0
  /\ entropy \in EntropyInputs
  /\ settings \in WideSettingsInputs
  /\ expanded = <<>>
  /\ chars = <<>>
  /\ present = {}
  /\ p = 0
  /\ result = <<>>
  /\ error = ""
  /\ requests = [r \in Requests |-> NoRequest]
  /\ tally = NoTally
  /\ blockLoop = NoBlockLoop
  /\ staticFile = NoStaticFile
  /\ ClientInit

SpecWide == InitWide /\ [][NextDerive]_vars

(* ------------------- the byte-to-index mapping alone ------------------- *)

InitSampler ==
  /\ pc = "idle"
  /\ caller = 0
  /\ entropy = <<>>
  /\ settings = NoSettings
  /\ expanded = <<>>
  /\ chars = <<>>
  /\ present = {}
  /\ p = 0
  /\ result = <<>>
  /\ error = ""
  /\ requests = [r \in Requests |-> NoRequest]
  /\ tally \in {[setLength |-> m, picked |-> <<>>] : m \in 1..ByteRange}
  /\ blockLoop = NoBlockLoop
  /\ staticFile = NoStaticFile
  /\ ClientInit

\* lines 201-204 applied to the next byte value: the index it selects, -1 when it is skipped
MapByte ==
  /\ Len(tally.picked) < ByteRange
  /\ LET byte == Len(tally.picked)
     IN tally' = [tally EXCEPT !.picked =
                    Append(@, IF byte >= RejectFrom(tally.setLength) THEN -1
                              ELSE CharIndex(byte, tally.setLength))]
  /\ UNCHANGED <<callVars, requests, blockLoop, staticFile,
                 clientVars>>

NextSampler == MapByte

SpecSampler == InitSampler /\ [][NextSampler]_vars

(* --------------------------- expandEntropy alone ----------------------- *)

\* const blocks = Math.ceil(byteCount / 32)
Blocks(byteCount) == (byteCount + DigestLen - 1) \div DigestLen

\* the byte counts asked for: one byte, one block, one byte more, 256 blocks, one byte more
ByteCountInputs ==
  {1, DigestLen, DigestLen + 1, ByteRange * DigestLen, ByteRange * DigestLen + 1}

InitExpand ==
  /\ pc = "idle"
  /\ caller = 0
  /\ entropy = <<>>
  /\ settings = NoSettings
  /\ expanded = <<>>
  /\ chars = <<>>
  /\ present = {}
  /\ p = 0
  /\ result = <<>>
  /\ error = ""
  /\ requests = [r \in Requests |-> NoRequest]
  /\ tally = NoTally
  /\ blockLoop \in {[byteCount |-> n, i |-> 0, counters |-> <<>>] : n \in ByteCountInputs}
  /\ staticFile = NoStaticFile
  /\ ClientInit

\* lines 89-95: one pass of the block loop: the counter input Buffer.from([i]) is hashed
HashBlock ==
  /\ blockLoop.i < Blocks(blockLoop.byteCount)
  /\ blockLoop' = [blockLoop EXCEPT !.i = @ + 1,
                                    !.counters = Append(@, CounterByte(blockLoop.i))]
  /\ UNCHANGED <<callVars, requests, tally, staticFile, clientVars>>

NextExpand == HashBlock

SpecExpand == InitExpand /\ [][NextExpand]_vars

(* --------------------------- resolveClientPath ------------------------- *)

\* pieces a request path is made of
MaxPieces == 4

\* a string is a sequence of characters; "%2e" stands for the three
\* characters of the escape of "."
Chars(name) ==
  CASE name = "client" -> <<"c", "l", "i", "e", "n", "t">>
    [] name = "client-old" -> <<"c", "l", "i", "e", "n", "t", "-", "o", "l", "d">>
    [] name = "srv" -> <<"s", "r", "v">>
    [] name = "app.js" -> <<"a", "p", "p", ".", "j", "s">>
    [] name = ".." -> <<".", ".">>
    [] name = "%2e%2e" -> <<"%2e", "%2e">>
    [] name = "?v" -> <<"?", "v">>
    [] OTHER -> <<name>>

\* __dirname
Dirname == <<"/">> \o Chars("srv")

RECURSIVE BeforeQuery(_)
\* urlPath.split('?')[0]
BeforeQuery(str) ==
  IF str = <<>> \/ Head(str) = "?" THEN <<>>
  ELSE <<Head(str)>> \o BeforeQuery(Tail(str))

\* decodeURI: an escape of an unreserved character becomes the character
decodeURI(str) == [i \in DOMAIN str |-> IF str[i] = "%2e" THEN "." ELSE str[i]]

RECURSIVE StripLeadingSlashes(_)
\* decoded.replace(/^\/+/, '')
StripLeadingSlashes(str) ==
  IF str # <<>> /\ Head(str) = "/" THEN StripLeadingSlashes(Tail(str)) ELSE str

RECURSIVE SplitSegments(_, _)
\* the segments of a path between its separators, cur being the one begun
SplitSegments(str, cur) ==
  IF str = <<>> THEN (IF cur = <<>> THEN <<>> ELSE <<cur>>)
  ELSE IF Head(str) = "/"
       THEN (IF cur = <<>> THEN <<>> ELSE <<cur>>) \o SplitSegments(Tail(str), <<>>)
       ELSE SplitSegments(Tail(str), Append(cur, Head(str)))

RECURSIVE NormalizeSegments(_, _)
\* path.normalize on an absolute path: '.' is dropped, '..' drops the
\* segment before it and is dropped at the root
NormalizeSegments(segs, out) ==
  IF segs = <<>> THEN out
  ELSE IF Head(segs) = <<".">> THEN NormalizeSegments(Tail(segs), out)
  ELSE IF Head(segs) = <<".", ".">>
       THEN NormalizeSegments(Tail(segs),
                              IF out = <<>> THEN out ELSE SubSeq(out, 1, Len(out) - 1))
       ELSE NormalizeSegments(Tail(segs), Append(out, Head(segs)))

RECURSIVE JoinSegments(_)
\* the segments of an absolute path, each after a separator
JoinSegments(segs) ==
  IF segs = <<>> THEN <<>>
  ELSE <<"/">> \o Head(segs) \o JoinSegments(Tail(segs))

\* path.normalize of an absolute path; a trailing separator is kept
pathNormalize(str) ==
  LET segs == NormalizeSegments(SplitSegments(str, <<>>), <<>>)
      body == IF segs = <<>> THEN <<"/">> ELSE JoinSegments(segs)
  IN IF segs # <<>> /\ str[Len(str)] = "/" THEN body \o <<"/">> ELSE body

\* path.join(dir, suffix): an empty suffix is left out
pathJoin(dir, suffix) ==
  IF suffix = <<>> THEN pathNormalize(dir) ELSE pathNormalize(dir \o <<"/">> \o suffix)

\* const clientDir = path.join(__dirname, 'client')
clientDir == pathJoin(Dirname, Chars("client"))

\* String.prototype.startsWith
StartsWith(str, prefix) ==
  Len(str) >= Len(prefix) /\ SubSeq(str, 1, Len(prefix)) = prefix

\* lines 39-42: what resolveClientPath normalizes urlPath to
NormalizedPath(urlPath) ==
  pathNormalize(pathJoin(clientDir, StripLeadingSlashes(decodeURI(BeforeQuery(urlPath)))))

\* the pieces of the request paths
Pieces == {"/", "..", ".", "client", "client-old", "app.js", "%2e%2e", "?v"}

RECURSIVE Flatten(_)
\* the string made of the pieces in turn
Flatten(pieces) ==
  IF pieces = <<>> THEN <<>> ELSE Chars(Head(pieces)) \o Flatten(Tail(pieces))

\* the request paths: a separator, then up to MaxPieces pieces
UrlInputs ==
  UNION {{<<"/">> \o Flatten(ps) : ps \in [1..n -> Pieces]} : n \in 1..MaxPieces}

InitStatic ==
  /\ pc = "idle"
  /\ caller = 0
  /\ entropy = <<>>
  /\ settings = NoSettings
  /\ expanded = <<>>
  /\ chars = <<>>
  /\ present = {}
  /\ p = 0
  /\ result = <<>>
  /\ error = ""
  /\ requests = [r \in Requests |-> NoRequest]
  /\ tally = NoTally
  /\ blockLoop = NoBlockLoop
  /\ staticFile \in {[NoStaticFile EXCEPT !.state = "asked", !.urlPath = u] : u \in UrlInputs}
  /\ ClientInit

\* lines 38-45: resolveClientPath(urlPath); null is the empty string here
resolveClientPath ==
  /\ staticFile.state = "asked"
  /\ LET normalized == NormalizedPath(staticFile.urlPath)
     IN staticFile' = [staticFile EXCEPT
                         !.state = "returned",
                         !.normalized = normalized,
                         !.returned = IF ~StartsWith(normalized, clientDir)
                                      THEN <<>> ELSE normalized]
  /\ UNCHANGED <<callVars, requests, tally, blockLoop, clientVars>>

NextStatic == resolveClientPath

SpecStatic == InitStatic /\ [][NextStatic]_vars

(* ------------------------------ client: App ---------------------------- *)

\* sessions (startCollection and resetAll calls) of one run
MaxSessions == 2

\* derivation requests of one run
MaxFetches == 2

\* the requiredMoves slider: min, step, max
SliderMin == 50

SliderStep == 10

SliderMax == 1000

\* the values the user moves the slider to
MoveInputs == {SliderMin, SliderMin + SliderStep}

\* the settings the user chooses in section 2 of the page
FormInputs == {DefaultForm, SettingsOf({"lowercase"}, <<97>>, TRUE, 4)}

\* the sample pushed by the k-th captured event of session s: performance.now()
\* grows from event to event and from session to session
Sample(s, k) == s * (SliderMax + 1) + k

\* the session a sample was captured in
SessionOf(sample) == sample \div (SliderMax + 1)

\* lines 114-124: the base64 text of the SHA-256 digest of the movements, in order
Sha256(movements) == [sha256 |-> movements]

\* line 154: JSON.stringify({ entropy, settings })
RequestBody(seed, f) == [entropy |-> seed, settings |-> f]

\* variant: handleMove never returns early
AtTarget_never(len, required) == FALSE

\* line 83: movementRef.current.length >= requiredMoves
AtTarget(len, required) == len >= required

\* variant: the ref hasComputedEntropy is not consulted
ShouldCompute_noFlag(count, required, computed) == count >= required

\* line 90: count >= requiredMoves && !hasComputedEntropy.current
ShouldCompute(count, required, computed) == count >= required /\ ~computed

\* variant: the Generate button is enabled whenever a seed is available
canGenerate_ignoresLoading(seed, isLoading) == seed # Null

\* line 189: const canGenerate = entropy && !loading
canGenerate(seed, isLoading) == seed # Null /\ ~isLoading

\* the password the server derives from a request body: a string fixed by
\* the seed and the settings of the body
ServerPassword(body) == <<[derivedFrom |-> body]>>

\* what fetch('/generate') resolves to for a request body
Responses(body) ==
  {PasswordResponse(ServerPassword(body)), PasswordResponse(<<>>),
   ErrorResponse("No character categories selected")}

\* the state of the server, which the client's steps leave alone
ServerIdle == UNCHANGED <<callVars, requests, tally, blockLoop, staticFile>>

\* lines 44-54, from the button of line 225 (disabled while collecting) or of line 247
startCollection ==
  /\ clientEntropy = Null => ~collecting
  /\ session < MaxSessions
  /\ clientPassword' = <<>>
  /\ clientEntropy' = Null
  /\ movementRef' = <<>>
  /\ hasComputedEntropy' = FALSE
  /\ collecting' = TRUE
  /\ clientError' = ""
  /\ session' = session + 1
  /\ listening' = TRUE
  /\ UNCHANGED <<requiredMoves, loading, form, digests, fetches, sent>>
  /\ ServerIdle

\* lines 57-76, from the button of line 335 (disabled while loading)
resetAll ==
  /\ ~loading
  /\ session < MaxSessions
  /\ requiredMoves' = DefaultMoves
  /\ form' = DefaultForm
  /\ collecting' = FALSE
  /\ clientPassword' = <<>>
  /\ clientEntropy' = Null
  /\ movementRef' = <<>>
  /\ hasComputedEntropy' = FALSE
  /\ loading' = FALSE
  /\ clientError' = ""
  /\ session' = session + 1
  /\ listening' = FALSE
  /\ UNCHANGED <<digests, fetches, sent>>
  /\ ServerIdle

\* lines 81-95 and 112-121: a mousemove event while handleMove is registered;
\* computeEntropy runs up to its await and leaves a digest to wait for
handleMove ==
  /\ listening
  /\ IF AtTarget(Len(movementRef), requiredMoves)
     THEN UNCHANGED <<movementRef, hasComputedEntropy, collecting, digests>>
     ELSE LET moved == Append(movementRef, Sample(session, Len(movementRef) + 1))
          IN /\ movementRef' = moved
             /\ IF ShouldCompute(Len(moved), requiredMoves, hasComputedEntropy)
                THEN /\ hasComputedEntropy' = TRUE
                     /\ collecting' = FALSE
                     /\ digests' = digests \cup
                          {[session |-> session, movements |-> moved, state |-> "pending"]}
                ELSE UNCHANGED <<hasComputedEntropy, collecting, digests>>
  /\ UNCHANGED <<requiredMoves, clientEntropy, clientPassword, loading, clientError, form,
                 fetches, session, sent, listening>>
  /\ ServerIdle

\* lines 97-99: the render that follows setCollecting(false) cleans the effect up
EffectCleanup ==
  /\ listening
  /\ ~collecting
  /\ listening' = FALSE
  /\ UNCHANGED <<requiredMoves, collecting, clientEntropy, movementRef, hasComputedEntropy,
                 clientPassword, loading, clientError, form, digests, fetches, session, sent>>
  /\ ServerIdle

\* line 220: the slider, rendered while entropy is null; the effect runs again
\* with the new requiredMoves (line 100), and a render that does not yet hold
\* the setCollecting(false) of handleMove registers handleMove again
setRequiredMoves ==
  /\ clientEntropy = Null
  /\ \E n \in MoveInputs \ {requiredMoves} : requiredMoves' = n
  /\ listening' \in {collecting, listening}
  /\ UNCHANGED <<collecting, clientEntropy, movementRef, hasComputedEntropy, clientPassword,
                 loading, clientError, form, digests, fetches, session, sent>>
  /\ ServerIdle

\* lines 263-324: the controls of the settings
setForm ==
  /\ \E f \in FormInputs \ {form} : form' = f
  /\ UNCHANGED <<requiredMoves, collecting, clientEntropy, movementRef, hasComputedEntropy,
                 clientPassword, loading, clientError, digests, fetches, session, sent,
                 listening>>
  /\ ServerIdle

\* lines 121-125: crypto.subtle.digest resolves
DigestResolve ==
  \E d \in digests :
    /\ d.state = "pending"
    /\ clientEntropy' = Sha256(d.movements)
    /\ digests' = (digests \ {d}) \cup {[d EXCEPT !.state = "resolved"]}
    /\ UNCHANGED <<requiredMoves, collecting, movementRef, hasComputedEntropy, clientPassword,
                   loading, clientError, form, fetches, session, sent, listening>>
    /\ ServerIdle

\* lines 126-128: crypto.subtle.digest rejects
DigestReject ==
  \E d \in digests :
    /\ d.state = "pending"
    /\ clientError' = "Failed to compute entropy"
    /\ digests' = (digests \ {d}) \cup {[d EXCEPT !.state = "rejected"]}
    /\ UNCHANGED <<requiredMoves, collecting, clientEntropy, movementRef, hasComputedEntropy,
                   clientPassword, loading, form, fetches, session, sent, listening>>
    /\ ServerIdle

\* lines 136-155, from the button of line 332 (disabled unless entropy && !loading)
clientGeneratePassword ==
  /\ canGenerate(clientEntropy, loading)
  /\ Len(sent) < MaxFetches
  /\ loading' = TRUE
  /\ clientError' = ""
  /\ fetches' = fetches \cup {[id |-> Len(sent) + 1, body |-> RequestBody(clientEntropy, form)]}
  /\ sent' = Append(sent, RequestBody(clientEntropy, form))
  /\ UNCHANGED <<requiredMoves, collecting, clientEntropy, movementRef, hasComputedEntropy,
                 clientPassword, form, digests, session, listening>>
  /\ ServerIdle

\* lines 156-170: the fetch resolves
FetchResolve ==
  \E f \in fetches : \E resp \in Responses(f.body) :
    /\ fetches' = fetches \ {f}
    /\ IF resp.status # 200
       THEN clientError' = resp.body.error /\ UNCHANGED clientPassword
       ELSE IF resp.body.password # <<>>
            THEN clientPassword' = resp.body.password /\ UNCHANGED clientError
            ELSE clientError' = "Invalid response from server" /\ UNCHANGED clientPassword
    /\ loading' = FALSE
    /\ UNCHANGED <<requiredMoves, collecting, clientEntropy, movementRef, hasComputedEntropy,
                   form, digests, session, sent, listening>>
    /\ ServerIdle

InitClient ==
  /\ pc = "idle"
  /\ caller = 0
  /\ entropy = <<>>
  /\ settings = NoSettings
  /\ expanded = <<>>
  /\ chars = <<>>
  /\ present = {}
  /\ p = 0
  /\ result = <<>>
  /\ error = ""
  /\ requests = [r \in Requests |-> NoRequest]
  /\ tally = NoTally
  /\ blockLoop = NoBlockLoop
  /\ staticFile = NoStaticFile
  /\ ClientInit

NextClient ==
  \/ startCollection
  \/ resetAll
  \/ handleMove
  \/ EffectCleanup
  \/ setRequiredMoves
  \/ setForm
  \/ DigestResolve
  \/ DigestReject
  \/ clientGeneratePassword
  \/ FetchResolve

SpecClient == InitClient /\ [][NextClient]_vars

(* ------------------ the collection and its seed alone ----------------- *)

NextCollect ==
  \/ startCollection
  \/ resetAll
  \/ handleMove
  \/ EffectCleanup
  \/ setRequiredMoves
  \/ DigestResolve
  \/ DigestReject

SpecCollect == InitClient /\ [][NextCollect]_vars

\* mousemove events keep arriving: handleMove captures a sample again and
\* again as long as it is again and again able to
FairCollect == SpecCollect /\ SF_vars(handleMove)

(* ------------------- the seed and its requests alone ------------------- *)

NextRequest ==
  \/ startCollection
  \/ resetAll
  \/ handleMove
  \/ DigestResolve
  \/ clientGeneratePassword
  \/ FetchResolve

SpecRequest == InitClient /\ [][NextRequest]_vars

(* ------------------------------- claims -------------------------------- *)

\* the active call has ended
CallEnded == pc \in {"returned", "thrown"}

\* C1: with a non-empty alphabet and requireEachSelected set, a call of
\* generatePassword that has started sampling ends: it returns or throws
\* (or leaves the part of the buffer growth the model follows).
C1_Terminates ==
  (pc = "sampling" /\ settings.requireEachSelected) ~> (CallEnded \/ BufferAtBound)

\* C2: a password returned with requireEachSelected set holds a character
\* of every selected category, the custom characters included.
C2_CoverageOnReturn ==
  (pc = "returned" /\ settings.requireEachSelected) =>
    \A key \in SelectedKeys(settings) :
      \E i \in DOMAIN result : Includes(CategoryChars(settings, key), result[i])

C2_Witness ==
  /\ pc = "returned"
  /\ settings.requireEachSelected
  /\ Cardinality(SelectedKeys(settings)) >= 3
  /\ p > Len(result)

\* C3: for a length L in 1..2048 a returned password has exactly L
\* characters, each of them a character of the alphabet of the settings.
C3_LengthAndAlphabet ==
  (pc = "returned" /\ settings.length \in 1..MaxLength) =>
    /\ Len(result) = settings.length
    /\ \A i \in DOMAIN result : result[i] \in Range(FullSet(settings))

C3_Witness ==
  /\ pc = "returned"
  /\ settings.length = MaxLenInput
  /\ Len(expanded) > 2 * settings.length

\* C4: the read position is never rewound while a call samples, so a
\* candidate built after a failed coverage check reads only new positions.
C4_NoRewind == [][(pc = "sampling" /\ pc' = "sampling") => p' >= p]_vars

\* C5: the byte read at stream position k is byte (k mod 32) of the block
\* HMAC(seed, floor(k/32)), also past the first 2*length bytes.
C5_StreamPositions ==
  (pc \in {"sampling", "returned"}) =>
    \A k \in 0..(p - 1) :
      expanded[k + 1] = HmacSha256(entropy, k \div DigestLen)[(k % DigestLen) + 1]

\* C9: a returned password has min(max(n,1),2048) characters for the
\* requested length n.
C9_Clamped ==
  (pc = "returned") => Len(result) = Min(Max(settings.length, 1), MaxLength)

\* all five category flags are false and customCharacters is empty
AllFlagsOff(s) ==
  /\ ~s.includeLowercase
  /\ ~s.includeUppercase
  /\ ~s.includeNumbers
  /\ ~s.includeSymbols
  /\ ~s.includeExtendedLatin
  /\ s.customCharacters = <<>>

\* the response is an error and nothing else
IsErrorResponse(resp) ==
  /\ resp.status \notin 200..299
  /\ DOMAIN resp.body = {"error"}

\* the response is a password and nothing else
IsPasswordResponse(resp) ==
  /\ resp.status = 200
  /\ DOMAIN resp.body = {"password"}

\* C6: with all category flags false and no custom characters the call
\* throws before it expands or samples a byte and never returns a password;
\* a request with such settings is answered with an error and no password.
C6_EmptyAlphabetFails ==
  /\ (pc # "idle" /\ AllFlagsOff(settings)) =>
       /\ pc \in {"called", "thrown"}
       /\ p = 0
       /\ expanded = <<>>
       /\ chars = <<>>
       /\ result = <<>>
  /\ \A r \in Requests :
       (requests[r].payload.settings.given
          /\ AllFlagsOff(requests[r].payload.settings.value)) =>
         \A i \in DOMAIN requests[r].responses : IsErrorResponse(requests[r].responses[i])

C6_Witness ==
  \E r \in Requests :
    /\ requests[r].state = "done"
    /\ requests[r].payload.entropy.bytes = EntropyBytes
    /\ AllFlagsOff(requests[r].payload.settings.value)
    /\ requests[r].responses = <<ErrorResponse("No character categories selected")>>

\* C7: with limit the largest multiple of m not above 256, a byte b is
\* accepted iff b < limit, an accepted byte selects index b mod m, and once
\* all 256 byte values are mapped every index 0..m-1 has limit/m of them.
C7_Unbiased ==
  LET m == tally.setLength
      limit == m * (ByteRange \div m)
      n == Len(tally.picked)
  IN m > 0 =>
       /\ \A b \in 0..(n - 1) :
            /\ (tally.picked[b + 1] # -1) <=> (b < limit)
            /\ (b < limit) => tally.picked[b + 1] = b % m
       /\ (n = ByteRange) =>
            \A i \in 0..(m - 1) :
              Cardinality({b \in 1..n : tally.picked[b] = i}) = limit \div m

C7_Witness ==
  /\ tally.setLength = 3
  /\ Len(tally.picked) = ByteRange
  /\ tally.picked[ByteRange] = -1

\* C8: two requests with the same entropy and the same settings that are
\* both answered with a password are answered with the same password,
\* whatever was derived in between.
C8_Deterministic ==
  \A r1, r2 \in Requests :
    (/\ requests[r1].responses # <<>>
     /\ requests[r2].responses # <<>>
     /\ requests[r1].responses[1].status = 200
     /\ requests[r2].responses[1].status = 200
     /\ requests[r1].payload.entropy.key = requests[r2].payload.entropy.key
     /\ requests[r1].payload.settings.value = requests[r2].payload.settings.value)
    => requests[r1].responses[1].body.password = requests[r2].responses[1].body.password

C8_Witness ==
  \E r1, r2 \in Requests :
    /\ r1 # r2
    /\ requests[r1].responses # <<>>
    /\ requests[r2].responses # <<>>
    /\ requests[r1].responses[1].status = 200
    /\ requests[r2].responses[1].status = 200
    /\ requests[r1].payload.entropy.key = requests[r2].payload.entropy.key
    /\ requests[r1].payload.settings.value = requests[r2].payload.settings.value
    /\ requests[r1].payload.settings.value.requireEachSelected

\* the body is no JSON, lacks entropy or settings, or its entropy is not 32 bytes
BadRequest(payload) ==
  \/ payload.json # "object"
  \/ ~payload.entropy.given
  \/ ~payload.settings.given
  \/ payload.entropy.bytes # 32

\* C10: a request has a response exactly when its handler has finished, and
\* then exactly one: status 200 with only a password, or a non-2xx status
\* with only an error; a bad request gets the error and generatePassword is
\* never called for it.
C10_OneResponse ==
  \A r \in Requests :
    LET req == requests[r]
    IN /\ Len(req.responses) = (IF req.state = "done" THEN 1 ELSE 0)
       /\ \A i \in DOMAIN req.responses :
            IsPasswordResponse(req.responses[i]) \/ IsErrorResponse(req.responses[i])
       /\ (req.state = "handling") <=> (caller = r)
       /\ (req.state # "none" /\ BadRequest(req.payload)) =>
            /\ caller # r
            /\ \A i \in DOMAIN req.responses : IsErrorResponse(req.responses[i])

C10_Witness ==
  \E r1, r2 \in Requests :
    /\ requests[r1].state = "done"
    /\ IsPasswordResponse(requests[r1].responses[1])
    /\ requests[r2].state = "done"
    /\ requests[r2].payload.entropy.bytes = EntropyBytes - 1
    /\ requests[r2].payload.settings.given
    /\ IsErrorResponse(requests[r2].responses[1])

\* C17: while a candidate is built the read position moves on by one with
\* every byte read, and a byte read adds at most one character (a skipped
\* byte none): no position is read twice and none gives two characters.
C17_OneCharPerByte ==
  [][(pc = "sampling" /\ pc' = "sampling") =>
       /\ \/ chars' = <<>> /\ p' = 0
          \/ /\ p' = p + 1
             /\ Len(chars') \in {Len(chars), Len(chars) + 1}
             /\ SubSeq(chars', 1, Len(chars)) = chars
       /\ Len(chars') <= p']_vars

C17_Witness ==
  /\ pc = "sampling"
  /\ Len(chars) >= 2
  /\ p > Len(chars)
  /\ p > PasswordLength(settings) * 2

\* C19: expandEntropy hashes different counter inputs for different block
\* indices, whatever the byte count, and the output for n bytes is a prefix
\* of the output for more bytes.
C19_NoAliasing ==
  /\ \A i, j \in DOMAIN blockLoop.counters :
       i # j => blockLoop.counters[i] # blockLoop.counters[j]
  /\ \A n \in {1, DigestLen} :
       expandEntropy(<<0, 30>>, n) = SubSeq(expandEntropy(<<0, 30>>, DigestLen + 1), 1, n)

\* C20: a selected character counts for every selected category whose
\* string contains it: present holds exactly the categories that contain a
\* character of the candidate, whichever part of the alphabet it was taken from.
C20_AllMemberships ==
  (pc \in {"sampling", "returned"}) =>
    present = {key \in SelectedKeys(settings) :
                 \E i \in DOMAIN chars : Includes(CategoryChars(settings, key), chars[i])}

\* the last byte read selected the custom "a" of the alphabet lowercase + custom
C20_Witness ==
  /\ pc = "sampling"
  /\ SelectedKeys(settings) = {"lowercase", "custom"}
  /\ p > 0
  /\ expanded[p] < RejectFrom(Len(FullSet(settings)))
  /\ CharIndex(expanded[p], Len(FullSet(settings))) = Len(lowercase)
  /\ chars # <<>>
  /\ chars[Len(chars)] = 97
  /\ {"lowercase", "custom"} \subseteq present

RECURSIVE FirstCandidate(_, _, _, _, _)
\* the candidate a call builds in its first pass from buffer buf, read from pos on
FirstCandidate(key, s, buf, cs, pos) ==
  IF ~NeedsMoreChars(cs, PasswordLength(s)) THEN cs
  ELSE LET grown == IF pos >= Len(buf) THEN buf \o ExtraBytes(key) ELSE buf
           byte == grown[pos + 1]
           m == Len(FullSet(s))
       IN FirstCandidate(key, s, grown,
                         IF byte >= RejectFrom(m) THEN cs
                         ELSE Append(cs, FullSet(s)[CharIndex(byte, m) + 1]),
                         pos + 1)

\* the response to a request that is the only request of the server
AloneResponse(payload) ==
  IF BadRequest(payload) THEN ErrorResponse(RequestError(payload))
  ELSE IF AllFlagsOff(payload.settings.value)
       THEN ErrorResponse("No character categories selected")
       ELSE PasswordResponse(
              FirstCandidate(payload.entropy.key, payload.settings.value,
                             expandEntropy(payload.entropy.key,
                                           PasswordLength(payload.settings.value) * 2),
                             <<>>, 0))

\* C16: however the data and end events of the requests interleave, the
\* body of a request holds its own chunks only and its response is the one
\* it gets as the only request: a function of its own entropy and settings.
C16_Independent ==
  \A r \in Requests :
    /\ (requests[r].state = "receiving") => requests[r].body = requests[r].received
    /\ \A i \in DOMAIN requests[r].responses :
         requests[r].responses[i] = AloneResponse(requests[r].payload)

\* a request is answered with a password while the body of another is half received
C16_Witness ==
  \E r1, r2 \in Requests :
    /\ r1 # r2
    /\ requests[r1].state = "done"
    /\ IsPasswordResponse(requests[r1].responses[1])
    /\ requests[r1].payload.size > ChunkLen
    /\ requests[r2].state = "receiving"
    /\ requests[r2].received > 0
    /\ requests[r2].received < requests[r2].payload.size

\* C11: the seed that is available was computed from the samples of the
\* session started last: none is available while collecting, and after
\* startCollection or resetAll no seed of an earlier session appears.
C11_SeedOfLastSession ==
  clientEntropy # Null =>
    /\ ~collecting
    /\ \A i \in DOMAIN clientEntropy.sha256 : SessionOf(clientEntropy.sha256[i]) = session

\* C12: a seed is carried by at most one derivation request.
C12_SeedUsedOnce ==
  \A i, j \in DOMAIN sent : i # j => sent[i].entropy # sent[j].entropy

\* C13: computeEntropy is invoked at most once in a session, whatever
\* mouse moves and requiredMoves changes occur.
C13_ComputedOnce ==
  \A d1, d2 \in digests : d1.session = d2.session => d1.movements = d2.movements

\* after the seed computation of the session started, the slider was raised
\* and handleMove has captured further samples
C13_Witness ==
  \E d \in digests :
    /\ d.session = session
    /\ hasComputedEntropy
    /\ requiredMoves > Len(d.movements)
    /\ Len(movementRef) > Len(d.movements)

\* C14: a collection that is started completes if mouse moves keep arriving,
\* whatever the user does with the requiredMoves slider.
C14_CollectionCompletes == collecting ~> ~collecting

\* C15: the body of a derivation request holds the seed and the settings and
\* nothing else, and the sample buffer is empty once the seed is computed.
C15_SamplesDiscarded ==
  /\ \A i \in DOMAIN sent :
       /\ DOMAIN sent[i] = {"entropy", "settings"}
       /\ DOMAIN sent[i].entropy = {"sha256"}
  /\ clientEntropy # Null => movementRef = <<>>

\* C18: every computeEntropy call hashes exactly requiredMoves samples, the
\* samples of the session in the order they arrived.
C18_ExactlyRequiredMoves ==
  [][\A d \in digests' \ digests :
       d.state = "pending" =>
         /\ Len(d.movements) = requiredMoves
         /\ \A k \in DOMAIN d.movements : d.movements[k] = Sample(d.session, k)]_vars

\* a seed computed after the slider was moved during the collection
C18_Witness ==
  /\ clientEntropy # Null
  /\ Len(clientEntropy.sha256) = SliderMin + SliderStep
  /\ requiredMoves = SliderMin + SliderStep

\* the directories and the file a path names, outermost first
PathSegments(str) == SplitSegments(str, <<>>)

\* the path names the client directory or something in it
InClientDir(str) ==
  /\ Len(PathSegments(str)) >= Len(PathSegments(clientDir))
  /\ SubSeq(PathSegments(str), 1, Len(PathSegments(clientDir))) = PathSegments(clientDir)

\* C21: resolveClientPath returns null when the normalized path is not in
\* the client directory, a sibling directory whose name begins with the
\* client directory's name included, and a path in the client directory
\* otherwise.
C21_StaysInClientDir ==
  (staticFile.state = "returned") =>
    IF InClientDir(staticFile.normalized)
    THEN staticFile.returned = staticFile.normalized
    ELSE staticFile.returned = <<>>

\* C22: without the coverage check a call ends for every non-empty alphabet,
\* alphabets of more than 256 characters included: some byte value is
\* accepted by the sampler, and the call does not use up the growth of its
\* buffer while it still needs characters.
C22_EndsForEveryAlphabet ==
  (pc = "sampling" /\ ~settings.requireEachSelected) =>
    /\ \E byte \in 0..(ByteRange - 1) : byte < RejectFrom(Len(FullSet(settings)))
    /\ ~BufferAtBound

\* the seed was hashed from samples of the session started last
OfLastSession(seed) ==
  \A i \in DOMAIN seed.sha256 : SessionOf(seed.sha256[i]) = session

\* C23: the password displayed was derived from a seed of the collection
\* session started last: once startCollection has cleared it, the response
\* to a request sent before does not set it.  States in which the seed
\* available is itself one of an earlier session (C11) are left aside.
C23_NoPasswordOfEarlierSession ==
  (clientPassword # <<>> /\ (clientEntropy = Null \/ OfLastSession(clientEntropy))) =>
    OfLastSession(clientPassword[1].derivedFrom.entropy)

\* C24: at most one derivation request is in flight: loading is true
\* exactly while one is, and a request is sent only with a seed available
\* and loading false, whatever Generate, Re-collect and Reset are pressed.
C24_OneRequestInFlight ==
  /\ Cardinality(fetches) <= 1
  /\ loading <=> fetches # {}
  /\ \A f \in fetches : f.body.entropy # Null

\* a second request is in flight after the first has settled, and the user
\* has pressed Re-collect meanwhile
C24_Witness ==
  /\ Len(sent) = 2
  /\ \E f \in fetches : f.id = 2
  /\ loading
  /\ collecting

====
